---- MODULE Spec2Model ----
\* Model of spacex-dash-app.py: the module-level startup (column resolution,
\* payload bounds, application, layout, callback registration, server) and
\* the two Dash callbacks get_pie_chart and update_scatter.
EXTENDS Integers, Sequences, FiniteSets, TLC

VARIABLES spacex_df, columns, site_col, payload_col, booster_col,
          min_payload, max_payload, pc, error, app, layout, callbacks,
          dropdown, slider, pending, pie, scatter

vars == <<spacex_df, columns, site_col, payload_col, booster_col,
          min_payload, max_payload, pc, error, app, layout, callbacks,
          dropdown, slider, pending, pie, scatter>>

\* ---------------------------------------------------------------- bounds
MaxRows == 2          \* rows of the loaded table
MaxPayloadSteps == 2  \* payload masses are 1..MaxPayloadSteps slider steps
LoadRows == 2         \* rows of the tables used to exercise the loader

\* ------------------------------------------------------ values and table
\* The value pandas gives an empty CSV cell (numpy.nan).
NaN == 0 - 1
\* Python's None (unresolved payload column, cleared dropdown).
None == "None"
\* The slider's step, in kilograms.
Step == 1000

\* Launch sites of the bounded datasets, in the order sorted() gives them.
SiteOrder == <<"CCAFS", "KSC">>
Sites == {SiteOrder[i] : i \in DOMAIN SiteOrder}
PayloadValues == {k * Step : k \in 1..MaxPayloadSteps}

SiteAliases == <<"Launch Site", "LaunchSite">>
PayloadAliases == <<"Payload Mass (kg)", "PayloadMass", "PayloadMassKg">>
BoosterAliases == <<"Booster Version Category", "BoosterVersionCategory">>
Range(s) == {s[i] : i \in DOMAIN s}
AliasNames == Range(SiteAliases) \cup Range(PayloadAliases) \cup Range(BoosterAliases)

\* A row of the table, by logical field.
Rows == [site : Sites, payload : PayloadValues \cup {NaN},
         class : {0, 1, NaN}, booster : {"FT"}]
SeqsUpTo(S, n) == UNION {[1..k -> S] : k \in 0..n}

\* Headers of the bounded datasets (the class column is always there).
AllHeaders == {h \cup {"class"} : h \in SUBSET AliasNames}
ChartHeaders == {
    {"Launch Site", "Payload Mass (kg)", "Booster Version Category", "class"},
    {"LaunchSite", "PayloadMassKg", "BoosterVersionCategory", "class"},
    {"Launch Site", "Payload Mass (kg)", "class"},
    {"Launch Site", "Booster Version Category", "class"},
    {"PayloadMass", "Booster Version Category", "class"} }
LoadRowKinds == {r \in Rows : r.site = SiteOrder[1] /\ r.payload # NaN /\ r.class = 1}

\* ------------------------------------------------- pandas comparisons
\* Comparisons with NaN are False.
GeStrict(x, y) == x # NaN /\ y # NaN /\ x > y
Ge(x, y) == x # NaN /\ y # NaN /\ x >= y
LeStrict(x, y) == x # NaN /\ y # NaN /\ x < y
Le(x, y) == x # NaN /\ y # NaN /\ x <= y
Eq(x, y) == x # NaN /\ y # NaN /\ x = y

\* Series.max() / Series.min() skip NaN; NaN when nothing is left.
SeriesValues(df) == {df[i].payload : i \in DOMAIN df} \ {NaN}
SeriesMax(df) == IF SeriesValues(df) = {} THEN NaN
                 ELSE CHOOSE m \in SeriesValues(df) : \A v \in SeriesValues(df) : v <= m
SeriesMin(df) == IF SeriesValues(df) = {} THEN NaN
                 ELSE CHOOSE m \in SeriesValues(df) : \A v \in SeriesValues(df) : m <= v

\* ------------------------------------------------------------- loader
\* Lines 12-18: the three conditional expressions.
ResolveSite(cols) == IF "Launch Site" \in cols THEN "Launch Site" ELSE "LaunchSite"
ResolvePayloadReordered(cols) ==
    IF "Payload Mass (kg)" \in cols THEN "Payload Mass (kg)"
    ELSE IF "PayloadMassKg" \in cols THEN "PayloadMassKg"
    ELSE IF "PayloadMass" \in cols THEN "PayloadMass"
    ELSE None
ResolvePayload(cols) ==
    IF "Payload Mass (kg)" \in cols THEN "Payload Mass (kg)"
    ELSE IF "PayloadMass" \in cols THEN "PayloadMass"
    ELSE IF "PayloadMassKg" \in cols THEN "PayloadMassKg"
    ELSE None
ResolveBooster(cols) ==
    IF "Booster Version Category" \in cols THEN "Booster Version Category"
    ELSE "BoosterVersionCategory"

NoError == [kind |-> "none", line |-> 0, columns |-> {}]
NoLayout == [built |-> FALSE, options |-> <<>>, value |-> None,
             min |-> NaN, max |-> NaN, step |-> 0, range |-> <<NaN, NaN>>,
             marks |-> {}]
NoPie == [computed |-> FALSE, entered_site |-> None, title |-> <<>>,
          slices |-> <<>>, site_col |-> None]
NoScatter == [computed |-> FALSE, selected_site |-> None,
              payload_range |-> <<NaN, NaN>>, dff |-> <<>>,
              title_suffix |-> None, raised |-> FALSE,
              site_col |-> None, payload_col |-> None, booster_col |-> None]

InitWith(headers, tables) ==
    /\ columns \in headers
    /\ spacex_df \in tables
    /\ site_col = None /\ payload_col = None /\ booster_col = None
    /\ min_payload = NaN /\ max_payload = NaN
    /\ pc = "resolve"
    /\ error = NoError
    /\ app = FALSE
    /\ layout = NoLayout
    /\ callbacks = {}
    /\ dropdown = None
    /\ slider = <<NaN, NaN>>
    /\ pending = {}
    /\ pie = NoPie
    /\ scatter = NoScatter

\* State after line 9 (pd.read_csv).
Init == InitWith(ChartHeaders, SeqsUpTo(Rows, MaxRows))
InitLoad == InitWith(AllHeaders, SeqsUpTo(LoadRowKinds, LoadRows))

ResolveColumns ==
    /\ pc = "resolve"
    /\ site_col' = ResolveSite(columns)
    /\ payload_col' = ResolvePayload(columns)
    /\ booster_col' = ResolveBooster(columns)
    /\ pc' = "check"
    /\ UNCHANGED <<spacex_df, columns, min_payload, max_payload, error, app,
                   layout, callbacks, dropdown, slider, pending, pie, scatter>>

CheckPayloadColNoRaise ==
    /\ pc = "check"
    /\ error' = error
    /\ pc' = "bounds"
    /\ UNCHANGED <<spacex_df, columns, site_col, payload_col, booster_col,
                   min_payload, max_payload, app, layout, callbacks,
                   dropdown, slider, pending, pie, scatter>>

\* Lines 20-24: the payload column check.
CheckPayloadCol ==
    /\ pc = "check"
    /\ IF payload_col = None
       THEN /\ error' = [kind |-> "ValueError", line |-> 21, columns |-> columns]
            /\ pc' = "halted"
       ELSE /\ error' = error
            /\ pc' = "bounds"
    /\ UNCHANGED <<spacex_df, columns, site_col, payload_col, booster_col,
                   min_payload, max_payload, app, layout, callbacks,
                   dropdown, slider, pending, pie, scatter>>

\* Lines 27-28: slider bounds from the data.
ComputeBounds ==
    /\ pc = "bounds"
    /\ max_payload' = SeriesMax(spacex_df)
    /\ min_payload' = SeriesMin(spacex_df)
    /\ pc' = "app"
    /\ UNCHANGED <<spacex_df, columns, site_col, payload_col, booster_col,
                   error, app, layout, callbacks, dropdown, slider, pending,
                   pie, scatter>>

\* Line 31: dash.Dash(__name__).
CreateApp ==
    /\ pc = "app"
    /\ app' = TRUE
    /\ pc' = "layout"
    /\ UNCHANGED <<spacex_df, columns, site_col, payload_col, booster_col,
                   min_payload, max_payload, error, layout, callbacks,
                   dropdown, slider, pending, pie, scatter>>

\* sorted(spacex_df[site_col].unique())
SortedSites(df) ==
    SelectSeq(SiteOrder, LAMBDA s : \E i \in DOMAIN df : df[i].site = s)

\* Lines 34-77: the layout. spacex_df[site_col] raises KeyError when the
\* column is absent; int(min_payload) raises ValueError on NaN.
BuildLayout ==
    /\ pc = "layout"
    /\ IF site_col \notin columns
       THEN /\ error' = [kind |-> "KeyError", line |-> 44, columns |-> columns]
            /\ pc' = "halted"
            /\ layout' = layout
       ELSE IF min_payload = NaN
       THEN /\ error' = [kind |-> "ValueError", line |-> 66, columns |-> {}]
            /\ pc' = "halted"
            /\ layout' = layout
       ELSE /\ layout' = [built |-> TRUE,
                          options |-> <<"ALL">> \o SortedSites(spacex_df),
                          value |-> "ALL",
                          min |-> min_payload, max |-> max_payload,
                          step |-> Step,
                          range |-> <<min_payload, max_payload>>,
                          marks |-> {min_payload,
                                     (min_payload + max_payload) \div 2,
                                     max_payload}]
            /\ error' = error
            /\ pc' = "callbacks"
    /\ UNCHANGED <<spacex_df, columns, site_col, payload_col, booster_col,
                   min_payload, max_payload, app, callbacks, dropdown,
                   slider, pending, pie, scatter>>

CallbackInputsSiteOnly == [get_pie_chart |-> {"site-dropdown"},
                           update_scatter |-> {"site-dropdown"}]

\* Lines 82-85 and 115-121: the Input lists of the two callbacks.
CallbackInputs == [get_pie_chart |-> {"site-dropdown"},
                   update_scatter |-> {"site-dropdown", "payload-slider"}]

\* Lines 82-122: the decorators register both callbacks.
RegisterCallbacks ==
    /\ pc = "callbacks"
    /\ callbacks' = DOMAIN CallbackInputs
    /\ pc' = "run"
    /\ UNCHANGED <<spacex_df, columns, site_col, payload_col, booster_col,
                   min_payload, max_payload, error, app, layout, dropdown,
                   slider, pending, pie, scatter>>

\* Lines 147-148: app.run(). The page shows the layout's initial values and
\* every callback is called once with them.
RunServer ==
    /\ pc = "run"
    /\ pc' = "serving"
    /\ dropdown' = layout.value
    /\ slider' = layout.range
    /\ pending' = callbacks
    /\ UNCHANGED <<spacex_df, columns, site_col, payload_col, booster_col,
                   min_payload, max_payload, error, app, layout, callbacks,
                   pie, scatter>>

\* ----------------------------------------------------------- controls
\* The callbacks whose Input list names the changed property.
Triggered(prop) == {c \in callbacks : prop \in CallbackInputs[c]}

\* The dropdown offers its options and can be cleared (value None).
ChangeDropdown(v) ==
    /\ pc = "serving"
    /\ pending = {}
    /\ v \in Range(layout.options) \cup {None}
    /\ v # dropdown
    /\ dropdown' = v
    /\ pending' = Triggered("site-dropdown")
    /\ UNCHANGED <<spacex_df, columns, site_col, payload_col, booster_col,
                   min_payload, max_payload, pc, error, app, layout,
                   callbacks, slider, pie, scatter>>

\* Handle positions of the range slider: min, min+step, ... up to max.
SliderPositions ==
    {layout.min + k * layout.step : k \in 0..MaxPayloadSteps} \cap
    layout.min..layout.max

\* The handles move on the slider's positions and cannot cross.
ChangeSlider(lo, hi) ==
    /\ pc = "serving"
    /\ pending = {}
    /\ lo \in SliderPositions /\ hi \in SliderPositions
    /\ lo <= hi
    /\ <<lo, hi>> # slider
    /\ slider' = <<lo, hi>>
    /\ pending' = Triggered("payload-slider")
    /\ UNCHANGED <<spacex_df, columns, site_col, payload_col, booster_col,
                   min_payload, max_payload, pc, error, app, layout,
                   callbacks, dropdown, pie, scatter>>

\* ------------------------------------------------------ get_pie_chart
\* px.pie(df, names=column): one slice per name, sized by its row count.
PieByNames(names) ==
    [n \in Range(names) |-> Cardinality({i \in DOMAIN names : names[i] = n})]

\* Series.value_counts(): occurrences of each value, NaN left out.
value_counts(series) ==
    [v \in Range(series) \ {NaN} |->
        Cardinality({i \in DOMAIN series : series[i] = v})]

OutcomeLabelSwapped(v) == IF v = 1 THEN "Failure (0)"
                          ELSE IF v = 0 THEN "Success (1)"
                          ELSE "nan"

\* Line 103: .map({1: 'Success (1)', 0: 'Failure (0)'}).
OutcomeLabel(v) == IF v = 1 THEN "Success (1)"
                   ELSE IF v = 0 THEN "Failure (0)"
                   ELSE "nan"

RECURSIVE SumOver(_, _)
SumOver(f, S) == IF S = {} THEN 0
                 ELSE LET x == CHOOSE y \in S : TRUE
                      IN f[x] + SumOver(f, S \ {x})

\* px.pie(df, names=..., values=...): one slice per name, sized by the sum
\* of its values.
PieByValues(counts) ==
    [l \in {OutcomeLabel(v) : v \in DOMAIN counts} |->
        SumOver(counts, {v \in DOMAIN counts : OutcomeLabel(v) = l})]

Column(df, field) == [i \in DOMAIN df |-> df[i][field]]

get_pie_chart_unfiltered(entered_site) ==
    IF entered_site = "ALL"
    THEN [computed |-> TRUE, entered_site |-> entered_site,
          title |-> <<"Total Successful Launches by Site">>,
          slices |-> PieByNames(Column(spacex_df, "site")),
          site_col |-> site_col]
    ELSE LET df_site == SelectSeq(spacex_df, LAMBDA r : r.site = entered_site)
             outcome_counts == value_counts(Column(df_site, "class"))
         IN [computed |-> TRUE, entered_site |-> entered_site,
             title |-> <<"Launch Outcomes for ", entered_site>>,
             slices |-> PieByValues(outcome_counts),
             site_col |-> site_col]

\* Lines 86-110.
get_pie_chart(entered_site) ==
    IF entered_site = "ALL"
    THEN LET df_success == SelectSeq(spacex_df, LAMBDA r : Eq(r.class, 1))
         IN [computed |-> TRUE, entered_site |-> entered_site,
             title |-> <<"Total Successful Launches by Site">>,
             slices |-> PieByNames(Column(df_success, "site")),
             site_col |-> site_col]
    ELSE LET df_site == SelectSeq(spacex_df, LAMBDA r : r.site = entered_site)
             outcome_counts == value_counts(Column(df_site, "class"))
         IN [computed |-> TRUE, entered_site |-> entered_site,
             title |-> <<"Launch Outcomes for ", entered_site>>,
             slices |-> PieByValues(outcome_counts),
             site_col |-> site_col]

RunGetPieChart ==
    /\ pc = "serving"
    /\ "get_pie_chart" \in pending
    /\ pie' = get_pie_chart(dropdown)
    /\ pending' = pending \ {"get_pie_chart"}
    /\ UNCHANGED <<spacex_df, columns, site_col, payload_col, booster_col,
                   min_payload, max_payload, pc, error, app, layout,
                   callbacks, dropdown, slider, scatter>>

\* ----------------------------------------------------- update_scatter
\* Lines 122-144. px.scatter raises ValueError when color= names a column
\* the frame does not have.
update_scatter(selected_site, payload_range) ==
    LET low == payload_range[1]
        high == payload_range[2]
        masked == SelectSeq(spacex_df,
                     LAMBDA r : Ge(r.payload, low) /\ Le(r.payload, high))
        dff == IF selected_site # "ALL"
               THEN SelectSeq(masked, LAMBDA r : r.site = selected_site)
               ELSE masked
        title_suffix == IF selected_site # "ALL" THEN selected_site
                        ELSE "All Sites"
    IN [computed |-> TRUE, selected_site |-> selected_site,
        payload_range |-> payload_range, dff |-> dff,
        title_suffix |-> title_suffix,
        raised |-> booster_col \notin columns,
        site_col |-> site_col, payload_col |-> payload_col,
        booster_col |-> booster_col]

RunUpdateScatterInPlace ==
    /\ pc = "serving"
    /\ "update_scatter" \in pending
    /\ scatter' = update_scatter(dropdown, slider)
    /\ spacex_df' = scatter'.dff
    /\ pending' = pending \ {"update_scatter"}
    /\ UNCHANGED <<columns, site_col, payload_col, booster_col,
                   min_payload, max_payload, pc, error, app, layout,
                   callbacks, dropdown, slider, pie>>

RunUpdateScatter ==
    /\ pc = "serving"
    /\ "update_scatter" \in pending
    /\ scatter' = update_scatter(dropdown, slider)
    /\ pending' = pending \ {"update_scatter"}
    /\ UNCHANGED <<spacex_df, columns, site_col, payload_col, booster_col,
                   min_payload, max_payload, pc, error, app, layout,
                   callbacks, dropdown, slider, pie>>

Next ==
    \/ ResolveColumns
    \/ CheckPayloadCol
    \/ ComputeBounds
    \/ CreateApp
    \/ BuildLayout
    \/ RegisterCallbacks
    \/ RunServer
    \/ \E v \in Sites \cup {"ALL", None} : ChangeDropdown(v)
    \/ \E lo, hi \in PayloadValues : ChangeSlider(lo, hi)
    \/ RunGetPieChart
    \/ RunUpdateScatter

\* ============================================================ properties
RowIndices == DOMAIN spacex_df
SiteRows(s) == {i \in RowIndices : spacex_df[i].site = s}
SliceOf(fig, name) == IF name \in DOMAIN fig.slices THEN fig.slices[name] ELSE 0
OutcomesClean == \A i \in RowIndices : spacex_df[i].class \in {0, 1}
PayloadsClean == \A i \in RowIndices : spacex_df[i].payload # NaN
SitesInData == {spacex_df[i].site : i \in RowIndices}
Occurrences(seq, r) == Cardinality({j \in DOMAIN seq : seq[j] = r})
BothCallbacks == {"get_pie_chart", "update_scatter"}

\* C1: when every row's outcome is 0 or 1 and a site other than "ALL" is
\* selected, the pie's counts sum to the number of rows of that site, its
\* only labels are "Success (1)" and "Failure (0)", and each label's count
\* is the number of that site's rows with outcome 1, respectively 0.
C1_SitePieCounts ==
    (pie.computed /\ pie.entered_site # "ALL" /\ OutcomesClean) =>
        /\ SumOver(pie.slices, DOMAIN pie.slices)
             = Cardinality(SiteRows(pie.entered_site))
        /\ DOMAIN pie.slices \subseteq {"Success (1)", "Failure (0)"}
        /\ SliceOf(pie, "Success (1)") = Cardinality(
             {i \in SiteRows(pie.entered_site) : spacex_df[i].class = 1})
        /\ SliceOf(pie, "Failure (0)") = Cardinality(
             {i \in SiteRows(pie.entered_site) : spacex_df[i].class = 0})
        /\ pie.title = <<"Launch Outcomes for ", pie.entered_site>>
C1_Witness ==
    /\ pie.computed /\ pie.entered_site \in Sites /\ OutcomesClean
    /\ SliceOf(pie, "Success (1)") = 1
    /\ SliceOf(pie, "Failure (0)") = 1
    /\ Len(spacex_df) = 2

\* C2: with "ALL" selected, the pie's count for every site equals the number
\* of rows of that site with outcome 1; outcome-0 rows count nowhere.
C2_AllPieSuccessCounts ==
    (pie.computed /\ pie.entered_site = "ALL") =>
        /\ \A s \in Sites : SliceOf(pie, s) = Cardinality(
             {i \in SiteRows(s) : spacex_df[i].class = 1})
        /\ DOMAIN pie.slices \subseteq SitesInData
C2_Witness ==
    /\ pie.computed /\ pie.entered_site = "ALL"
    /\ \E s \in Sites : SliceOf(pie, s) = 1 /\ Cardinality(SiteRows(s)) = 2
    /\ \E i \in RowIndices : spacex_df[i].class = 0

\* C3 as stated: update_scatter with "ALL" and the loader's range
\* [min_payload, max_payload] selects every row of the table unchanged.
C3_FullRangeReturnsAll ==
    (scatter.computed /\ scatter.selected_site = "ALL"
       /\ scatter.payload_range = <<min_payload, max_payload>>) =>
        scatter.dff = spacex_df

\* C3 amended: when no row's payload is missing, update_scatter with "ALL"
\* and the loader's range [min_payload, max_payload] selects every row of
\* the table unchanged.
C3_FullRangeReturnsAllClean ==
    (scatter.computed /\ scatter.selected_site = "ALL"
       /\ scatter.payload_range = <<min_payload, max_payload>>
       /\ PayloadsClean) =>
        scatter.dff = spacex_df
C3_Witness ==
    /\ scatter.computed /\ scatter.selected_site = "ALL"
    /\ scatter.payload_range = <<min_payload, max_payload>>
    /\ PayloadsClean
    /\ min_payload < max_payload
    /\ Len(scatter.dff) = 2

\* C4: the rows update_scatter selects are exactly the rows with
\* low <= payload <= high (both inclusive) and, unless "ALL" is selected,
\* with the selected site; the range always has low <= high.
InRange(i, fig) ==
    /\ spacex_df[i].payload # NaN
    /\ fig.payload_range[1] <= spacex_df[i].payload
    /\ spacex_df[i].payload <= fig.payload_range[2]
    /\ fig.selected_site # "ALL" => spacex_df[i].site = fig.selected_site
C4_ScatterRowsExact ==
    scatter.computed =>
        /\ scatter.payload_range[1] <= scatter.payload_range[2]
        /\ Len(scatter.dff) =
             Cardinality({i \in RowIndices : InRange(i, scatter)})
        /\ \A r \in Rows : Occurrences(scatter.dff, r) =
             Cardinality({i \in RowIndices :
                            InRange(i, scatter) /\ spacex_df[i] = r})
C4_Witness ==
    /\ scatter.computed /\ scatter.selected_site \in Sites
    /\ Len(scatter.dff) = 1
    /\ scatter.dff[1].payload = scatter.payload_range[2]
    /\ \E i \in RowIndices :
         /\ spacex_df[i].site = scatter.selected_site
         /\ spacex_df[i].payload # NaN
         /\ spacex_df[i].payload < scatter.payload_range[1]

\* C5: for a selected site that is neither "ALL" nor in the dataset,
\* get_pie_chart gives a pie with no slices and update_scatter gives an
\* empty row set, neither of them raising an error.
C5_UnknownSiteEmpty ==
    /\ (pie.computed /\ pie.entered_site \notin SitesInData \cup {"ALL"}) =>
          DOMAIN pie.slices = {}
    /\ (scatter.computed
          /\ scatter.selected_site \notin SitesInData \cup {"ALL"}) =>
          (scatter.dff = <<>> /\ ~scatter.raised)

\* C6: the payload column is the first of "Payload Mass (kg)",
\* "PayloadMass", "PayloadMassKg" that the dataset has (None when it has
\* none), and a dataset with only "PayloadMassKg" passes the payload check
\* with "PayloadMassKg" selected.
PresentPayloadAliases == {i \in DOMAIN PayloadAliases : PayloadAliases[i] \in columns}
C6_PayloadPreference ==
    pc # "resolve" =>
        /\ IF PresentPayloadAliases = {} THEN payload_col = None
           ELSE /\ payload_col \in columns
                /\ \E i \in PresentPayloadAliases :
                     /\ payload_col = PayloadAliases[i]
                     /\ \A j \in PresentPayloadAliases : i <= j
        /\ (PresentPayloadAliases = {3} /\ pc # "check") =>
             (payload_col = "PayloadMassKg" /\ error.line # 21)
C6_Witness ==
    /\ pc = "serving"
    /\ PresentPayloadAliases = {3}
    /\ payload_col = "PayloadMassKg"

\* C7: when the dataset has none of the three payload aliases, startup halts
\* with the error of line 21 carrying the dataset's columns, and no
\* application, layout, callback, served page or chart ever exists.
C7_UnresolvedPayloadHalts ==
    (PresentPayloadAliases = {} /\ pc # "resolve") =>
        /\ pc \in {"check", "halted"}
        /\ pc = "halted" => error = [kind |-> "ValueError", line |-> 21,
                                     columns |-> columns]
        /\ ~app /\ ~layout.built /\ callbacks = {} /\ pending = {}
        /\ ~pie.computed /\ ~scatter.computed
C7_Witness ==
    /\ PresentPayloadAliases = {}
    /\ pc = "halted"
    /\ error.line = 21
    /\ "Launch Site" \in error.columns

\* C8: after a load that does not end in the configuration error, the three
\* resolved names are columns of the dataset, and every chart computed
\* later used those same names.
C8_ResolvedNamesPresent ==
    (pc \notin {"resolve", "check"} /\ error.line # 21) =>
        /\ site_col \in columns
        /\ payload_col \in columns
        /\ booster_col \in columns
        /\ pie.computed => pie.site_col = site_col
        /\ scatter.computed =>
             /\ scatter.site_col = site_col
             /\ scatter.payload_col = payload_col
             /\ scatter.booster_col = booster_col

\* C9: while the page is served, no step changes the table, its columns or
\* min_payload / max_payload.
C9_TableNeverMutated ==
    [][pc = "serving" =>
         /\ spacex_df' = spacex_df
         /\ columns' = columns
         /\ min_payload' = min_payload
         /\ max_payload' = max_payload]_vars
C9_Witness ==
    /\ pc = "serving" /\ pending = {}
    /\ pie.computed /\ pie.entered_site \in Sites
    /\ scatter.computed /\ scatter.selected_site \in Sites
    /\ scatter.payload_range # <<min_payload, max_payload>>
    /\ Len(scatter.dff) < Len(spacex_df)

\* C10 as stated: every change of the dropdown and every change of the
\* slider triggers both get_pie_chart and update_scatter.
C10_AnyChangeTriggersBoth ==
    [][(pc = "serving" /\ (dropdown' # dropdown \/ slider' # slider)) =>
         pending' = BothCallbacks]_vars

\* C10 amended: a change of the dropdown triggers get_pie_chart and
\* update_scatter; a change of the slider triggers update_scatter only; and
\* once the triggered callbacks have run, both charts are those of the
\* controls' current values.
C10_ChangeTriggersDependents ==
    /\ [][pc = "serving" =>
            /\ dropdown' # dropdown => pending' = BothCallbacks
            /\ slider' # slider => pending' = {"update_scatter"}]_vars
    /\ []((pc = "serving" /\ pending = {}) =>
            /\ pie.computed /\ pie.entered_site = dropdown
            /\ scatter.computed /\ scatter.selected_site = dropdown
            /\ scatter.payload_range = slider)
C10_Witness ==
    /\ pc = "serving"
    /\ pending = {"update_scatter"}
    /\ pie.computed /\ pie.entered_site = dropdown
    /\ scatter.computed /\ scatter.selected_site = dropdown
    /\ scatter.payload_range # slider


Spec == Init /\ [][Next]_vars
SpecLoad == InitLoad /\ [][Next]_vars
====
